---- MODULE Spec2Model ----
(***************************************************************************)
(* Sentence decoders of the nmea crate: parse_apa, parse_rpm, parse_rsa    *)
(* and parse_ztg (src/src/sentences/*.rs).  Text is a sequence of          *)
(* one-character strings; a decoder is an operator from a framed sentence  *)
(* to a Result.  The state machine is a caller that frames one sentence,   *)
(* hands it to one decoder, and then decodes it once more, either          *)
(* unchanged or with extra text appended to the data body.                 *)
(***************************************************************************)
EXTENDS Integers, Sequences, FiniteSets, TLC

(***************************************************************************)
(* Text helpers                                                            *)
(***************************************************************************)
Digits == {"0", "1", "2", "3", "4", "5", "6", "7", "8", "9"}

DigitVal(c) ==
    CASE c = "0" -> 0 [] c = "1" -> 1 [] c = "2" -> 2 [] c = "3" -> 3
      [] c = "4" -> 4 [] c = "5" -> 5 [] c = "6" -> 6 [] c = "7" -> 7
      [] c = "8" -> 8 [] c = "9" -> 9 [] OTHER -> 0

Drop(s, n) == SubSeq(s, n + 1, Len(s))

Take(s, n) == SubSeq(s, 1, n)

At(s, p) == IF p >= 1 /\ p <= Len(s) THEN s[p] ELSE "<eof>"

\* ASCII case folding of the letters that occur in "nan", "inf", "infinity"
Lower(c) ==
    CASE c = "N" -> "n" [] c = "A" -> "a" [] c = "I" -> "i" [] c = "F" -> "f"
      [] c = "T" -> "t" [] c = "Y" -> "y" [] OTHER -> c

Rep(c, n) == IF n <= 0 THEN <<>> ELSE [k \in 1..n |-> c]

\* number of leading characters of s from position p on that are digits
RECURSIVE DigitRun(_, _)
DigitRun(s, p) == IF At(s, p) \in Digits THEN 1 + DigitRun(s, p + 1) ELSE 0

\* the decimal value of the n digits of s starting at p
RECURSIVE DigitsValue(_, _, _)
DigitsValue(s, p, n) ==
    IF n = 0 THEN 0 ELSE DigitsValue(s, p, n - 1) * 10 + DigitVal(s[p + n - 1])

\* does s hold the word w (case-insensitively) at position p
RECURSIVE HasWordNoCase(_, _, _)
HasWordNoCase(s, p, w) ==
    \/ w = <<>>
    \/ /\ Lower(At(s, p)) = Head(w)
       /\ HasWordNoCase(s, p + 1, Tail(w))

\* length of the first maximal run of characters of s not in stop
RunNotIn(s, stop) ==
    IF \A p \in 1..Len(s) : s[p] \notin stop THEN Len(s)
    ELSE (CHOOSE p \in 1..Len(s) :
             s[p] \in stop /\ \A q \in 1..(p - 1) : s[q] \notin stop) - 1

(***************************************************************************)
(* Option<T>: None is the empty tuple, Some(v) the one-element tuple       *)
(***************************************************************************)
None == <<>>

Some(v) == <<v>>

IsSome(o) == Len(o) = 1

(***************************************************************************)
(* f32 values.  A finite value is sign * mant * 10^exp with mant not       *)
(* divisible by ten (zero is mant = 0, exp = 0); rounding to 24 bits is    *)
(* not modelled, the tokens used are short enough to be distinct as f32.   *)
(***************************************************************************)
RECURSIVE Normal(_, _)
Normal(m, e) ==
    IF m = 0 THEN [mant |-> 0, exp |-> 0]
    ELSE IF m % 10 = 0 THEN Normal(m \div 10, e + 1)
    ELSE [mant |-> m, exp |-> e]

Finite(neg, m, e) ==
    LET n == Normal(m, e)
    IN  [cls |-> "num", neg |-> neg, mant |-> n.mant, exp |-> n.exp]

NaN == [cls |-> "nan", neg |-> FALSE, mant |-> 0, exp |-> 0]

Inf(neg) == [cls |-> "inf", neg |-> neg, mant |-> 0, exp |-> 0]

\* f32's PartialEq: NaN equals nothing, -0.0 equals 0.0
F32Eq(a, b) ==
    /\ a.cls # "nan"
    /\ b.cls # "nan"
    /\ a.cls = b.cls
    /\ a.mant = b.mant
    /\ a.exp = b.exp
    /\ (a.neg = b.neg \/ (a.cls = "num" /\ a.mant = 0))

(***************************************************************************)
(* nom's IResult: Ok((rest, val)) or Err(Error | Failure | Incomplete)     *)
(***************************************************************************)
IOk(rest, val) == [ok |-> TRUE, rest |-> rest, val |-> val, err |-> "", code |-> ""]

IErr(err, code) == [ok |-> FALSE, rest |-> <<>>, val |-> <<>>, err |-> err, code |-> code]

\* nom::character::complete::one_of
one_of(list, i) ==
    IF i # <<>> /\ Head(i) \in list
    THEN IOk(Tail(i), Head(i))
    ELSE IErr("Error", "OneOf")

\* nom::character::streaming::one_of: an empty input is Incomplete
one_of_streaming(list, i) ==
    IF i = <<>> THEN IErr("Incomplete", "Needed")
    ELSE IF Head(i) \in list THEN IOk(Tail(i), Head(i))
    ELSE IErr("Error", "OneOf")

\* nom::character::complete::char
char(c, i) ==
    IF i # <<>> /\ Head(i) = c
    THEN IOk(Tail(i), c)
    ELSE IErr("Error", "Char")

\* opt written to swallow a malformed token: on a recoverable Error the
\* input is skipped up to the next separator and the value is None
opt_lenient(i, r) ==
    IF r.ok THEN IOk(r.rest, Some(r.val))
    ELSE IF r.err = "Error" THEN IOk(Drop(i, RunNotIn(i, {","})), None)
    ELSE r

\* nom::combinator::opt applied at input i to the inner parser's result r:
\* a recoverable Error becomes None with nothing consumed, Failure and
\* Incomplete pass through
opt(i, r) ==
    IF r.ok THEN IOk(r.rest, Some(r.val))
    ELSE IF r.err = "Error" THEN IOk(i, None)
    ELSE r

\* nom::bytes::complete::is_not: the longest non-empty prefix free of stop
is_not(stop, i) ==
    LET n == RunNotIn(i, stop)
    IN  IF n = 0 THEN IErr("Error", "IsNot") ELSE IOk(Drop(i, n), Take(i, n))

\* nom::bytes::complete::take_until: the prefix before the first c, which
\* must occur
take_until(c, i) ==
    LET n == RunNotIn(i, {c})
    IN  IF n = Len(i) THEN IErr("Error", "TakeUntil") ELSE IOk(Drop(i, n), Take(i, n))

\* nom::combinator::map_res applied to the inner result t and to the
\* outcome v of the mapping function on t.val
map_res(t, v) ==
    IF ~t.ok THEN t
    ELSE IF v.ok THEN IOk(t.rest, v.val)
    ELSE IErr("Error", "MapRes")

(***************************************************************************)
(* Floating point text                                                     *)
(***************************************************************************)
SignLen(s) == IF At(s, 1) \in {"+", "-"} THEN 1 ELSE 0

Recognized(len, mant, exp) ==
    [ok |-> TRUE, err |-> "", len |-> len, mant |-> mant, exp |-> exp]

NotRecognized(err) == [ok |-> FALSE, err |-> err, len |-> 0, mant |-> 0, exp |-> 0]

\* the digits after an exponent marker at q: cut(digit1), so none is a Failure
ExpDigits(s, q, mlen, mant, n2, es, n3) ==
    IF n3 = 0 THEN NotRecognized("Failure")
    ELSE Recognized(mlen + 1 + es + n3, mant,
                    (IF At(s, q + 1) = "-"
                     THEN 0 - DigitsValue(s, q + 1 + es, n3)
                     ELSE DigitsValue(s, q + 1 + es, n3)) - n2)

\* opt(tuple((one_of("eE"), opt(sign), cut(digit1)))) at q
Exponent(s, q, mlen, mant, n2, es) ==
    IF At(s, q) \notin {"e", "E"} THEN Recognized(mlen, mant, 0 - n2)
    ELSE ExpDigits(s, q, mlen, mant, n2, es, DigitRun(s, q + 1 + es))

\* digit1 opt('.' opt(digit1)), or '.' digit1: n1 digits, then n2 after a dot
Mantissa(s, p0, n1, dot, n2) ==
    IF n1 = 0 /\ n2 = 0 THEN NotRecognized("Error")
    ELSE Exponent(s, p0 + n1 + dot + n2, n1 + dot + n2,
                  DigitsValue(s, p0, n1) * (10 ^ n2) + DigitsValue(s, p0 + n1 + 1, n2),
                  n2,
                  IF At(s, p0 + n1 + dot + n2 + 1) \in {"+", "-"} THEN 1 ELSE 0)

\* nom::number::complete::recognize_float on s from position p0 (after the
\* sign): the length, mantissa and decimal exponent of the text recognised
DecimalAt(s, p0) ==
    IF At(s, p0 + DigitRun(s, p0)) = "."
    THEN Mantissa(s, p0, DigitRun(s, p0), 1, DigitRun(s, p0 + DigitRun(s, p0) + 1))
    ELSE Mantissa(s, p0, DigitRun(s, p0), 0, 0)

\* recognize_float_or_exceptions and the conversion of what it recognised
FloatOf(i, sl, d) ==
    IF d.ok
    THEN IOk(Drop(i, sl + d.len), Finite(At(i, 1) = "-", d.mant, d.exp))
    ELSE IF d.err = "Failure" THEN IErr("Failure", "Digit")
    ELSE IF HasWordNoCase(i, 1, <<"n", "a", "n">>) THEN IOk(Drop(i, 3), NaN)
    ELSE IF HasWordNoCase(i, 1, <<"i", "n", "f">>) THEN IOk(Drop(i, 3), Inf(FALSE))
    ELSE IErr("Error", "Float")

\* nom::number::complete::float: recognize_float, else one of the words
\* "nan", "inf", "infinity" (case-insensitive, tried in this order, never
\* signed), then the recognised text converted with str::parse::<f32>
float(i) == FloatOf(i, SignLen(i), DecimalAt(i, 1 + SignLen(i)))

(***************************************************************************)
(* crate::Error and Result                                                 *)
(***************************************************************************)
\* the message type tags that occur here (SentenceType has many more)
SentenceType == {"ABK", "APA", "RPM", "RSA", "ZTG"}

TEXT_PARAMETER_MAX_LEN == 64

NoError ==
    [kind |-> "", expected |-> "", found |-> "", max_length |-> 0,
     parameter_length |-> 0, nom |-> "", code |-> ""]

WrongSentenceHeader(expected, found) ==
    [NoError EXCEPT !.kind = "WrongSentenceHeader", !.expected = expected, !.found = found]

ParameterLength(max_length, parameter_length) ==
    [NoError EXCEPT !.kind = "ParameterLength", !.max_length = max_length,
                    !.parameter_length = parameter_length]

\* impl From<nom::Err<..>> for Error, applied by the ? operator
ParsingError(r) ==
    [NoError EXCEPT !.kind = "ParsingError", !.nom = r.err, !.code = r.code]

Ok(v) == [ok |-> TRUE, val |-> <<v>>, error |-> NoError]

Err(e) == [ok |-> FALSE, val |-> <<>>, error |-> e]

\* a panic (unreachable!()) is no return value; it is kept as its own outcome
Panicked == [ok |-> FALSE, val |-> <<>>, error |-> [NoError EXCEPT !.kind = "Panic"]]

\* what a match arm that panics yields in place of an Option
Unreachable == <<"panic", "unreachable!()">>

\* the ? operator on a failed IResult (a panic unwinds instead)
Stopped(r) == IF r.err = "Panic" THEN Panicked ELSE Err(ParsingError(r))

\* Ok(do_parse(sentence.data)?.1)
Second(r) == IF r.ok THEN Ok(r.val) ELSE Stopped(r)

(***************************************************************************)
(* sentences::utils (array_string, parse_valid_status, parse_num,          *)
(* parse_float_num, parse_hms, parse_duration_hms)                         *)
(***************************************************************************)
\* ArrayString::from(string), mapping a capacity error to ParameterLength
array_string(string) ==
    IF Len(string) > TEXT_PARAMETER_MAX_LEN
    THEN Err(ParameterLength(TEXT_PARAMETER_MAX_LEN, Len(string)))
    ELSE Ok(string)

\* boolean status field: 'A' is true, 'V' is false, anything else fails
parse_valid_status(i) ==
    IF i # <<>> /\ Head(i) \in {"A", "V"}
    THEN IOk(Tail(i), Head(i) = "A")
    ELSE IErr("Error", "OneOf")

\* str::parse::<i8>: the whole token, an optional sign and digits, in range
IntOf(tok, sl, n, v) ==
    IF n > 0 /\ sl + n = Len(tok) /\ v >= -128 /\ v <= 127
    THEN IOk(<<>>, v)
    ELSE IErr("Error", "ParseInt")

parse_num_i8(tok) ==
    IntOf(tok, SignLen(tok), DigitRun(tok, 1 + SignLen(tok)),
          IF At(tok, 1) = "-"
          THEN 0 - DigitsValue(tok, 1 + SignLen(tok), DigitRun(tok, 1 + SignLen(tok)))
          ELSE DigitsValue(tok, 1 + SignLen(tok), DigitRun(tok, 1 + SignLen(tok))))

\* does the token consist of an optional sign and the word w
IsWord(tok, sl, w) == HasWordNoCase(tok, 1 + sl, w) /\ Len(tok) = sl + Len(w)

\* str::parse::<f32>: the whole token; a sign may precede the words too
StdFloatOf(tok, sl, d) ==
    IF d.ok /\ sl + d.len = Len(tok)
    THEN IOk(<<>>, Finite(At(tok, 1) = "-", d.mant, d.exp))
    ELSE IF IsWord(tok, sl, <<"n", "a", "n">>) THEN IOk(<<>>, NaN)
    ELSE IF IsWord(tok, sl, <<"i", "n", "f">>) THEN IOk(<<>>, Inf(At(tok, 1) = "-"))
    ELSE IF IsWord(tok, sl, <<"i", "n", "f", "i", "n", "i", "t", "y">>)
         THEN IOk(<<>>, Inf(At(tok, 1) = "-"))
    ELSE IErr("Error", "ParseFloat")

parse_float_num(tok) == StdFloatOf(tok, SignLen(tok), DecimalAt(tok, 1 + SignLen(tok)))

\* the whole seconds of a non-negative finite value
WholePart(f) ==
    IF f.exp >= 0 THEN f.mant * (10 ^ f.exp) ELSE f.mant \div (10 ^ (0 - f.exp))

\* hhmmss.ss: two digits, two digits, and seconds s parsed from the rest
HmsOf(tok, maxHour, s) ==
    IF /\ DigitRun(tok, 1) >= 5
       /\ s.ok
       /\ s.val.cls = "num"
       /\ DigitsValue(tok, 1, 2) <= maxHour
       /\ DigitsValue(tok, 3, 2) < 60
       /\ WholePart(s.val) < 60
    THEN IOk(<<>>, [hour |-> DigitsValue(tok, 1, 2), minute |-> DigitsValue(tok, 3, 2),
                    second |-> s.val])
    ELSE IErr("Error", "Hms")

HmsToken(tok, maxHour) == HmsOf(tok, maxHour, parse_float_num(Drop(tok, 4)))

(***************************************************************************)
(* The field pipeline of a decoder: its parser calls in source order.  A   *)
(* step is the parser's name and its argument; the values decoded so far   *)
(* are kept in order.                                                      *)
(***************************************************************************)
P(op, arg) == [op |-> op, arg |-> arg]

\* match c { 'A' => Some(true), _ => None }
AV_partial(c) == IF c = "A" THEN Some(TRUE) ELSE None

\* match c { 'A' => Some(true), 'V' => Some(false), _ => unreachable!() }
AV(c) ==
    CASE c = "A" -> Some(TRUE)
      [] c = "V" -> Some(FALSE)
      [] OTHER -> Unreachable

\* match c { 'L' => Some(false), 'R' => Some(true), _ => unreachable!() }
LR_swapped(c) ==
    CASE c = "L" -> Some(FALSE)
      [] c = "R" -> Some(TRUE)
      [] OTHER -> Unreachable

\* match c { 'L' => Some(true), 'R' => Some(false), _ => unreachable!() }
LR(c) ==
    CASE c = "L" -> Some(TRUE)
      [] c = "R" -> Some(FALSE)
      [] OTHER -> Unreachable

\* match c { 'N' => Some('N'), 'K' => Some('K'), _ => unreachable!() }
NK(c) ==
    CASE c = "N" -> Some("N")
      [] c = "K" -> Some("K")
      [] OTHER -> Unreachable

\* match c { 'M' => Some('M'), 'T' => Some('T'), _ => unreachable!() }
MT(c) ==
    CASE c = "M" -> Some("M")
      [] c = "T" -> Some("T")
      [] OTHER -> Unreachable

\* match source_char { Some('S') => .., Some('E') => .., _ => unreachable!() }
RpmSource_required(o) ==
    CASE o = Some("S") -> Some("Shaft")
      [] o = Some("E") -> Some("Engine")
      [] OTHER -> Unreachable

\* source_char.map(|char| match char { 'S' => RpmSource::Shaft,
\*                  'E' => RpmSource::Engine, _ => unreachable!() })
RpmSource(o) ==
    IF ~IsSome(o) THEN None
    ELSE CASE o[1] = "S" -> Some("Shaft")
           [] o[1] = "E" -> Some("Engine")
           [] OTHER -> Unreachable

\* the match named m on the value v
Match(m, v) ==
    CASE m = "AV" -> AV(v)
      [] m = "LR" -> LR(v)
      [] m = "NK" -> NK(v)
      [] m = "MT" -> MT(v)
      [] m = "RpmSource" -> RpmSource(v)

\* the mapping function f of a map_res on the token tok
Apply(f, tok) ==
    CASE f = "parse_num::<i8>" -> parse_num_i8(tok)
      [] f = "parse_float_num::<f32>" -> parse_float_num(tok)
      [] f = "hms" -> HmsToken(tok, 23)
      [] f = "duration_hms" -> HmsToken(tok, 99)

\* map_res(take_until(","), f) once take_until has returned t
MapToken(t, f) == IF ~t.ok THEN t ELSE map_res(t, Apply(f, t.val))

\* optional time-of-day value hhmmss.ss
parse_hms(i) == MapToken(take_until(",", i), "hms")

\* duration value hhmmss.ss, hours/minutes/seconds/fractional seconds
parse_duration_hms(i) == MapToken(take_until(",", i), "duration_hms")

\* the parser call of one step at input i
Parser(step, i) ==
    CASE step.op = "one_of" -> one_of(step.arg, i)
      [] step.op = "char" -> char(step.arg, i)
      [] step.op = "opt(float)" -> opt(i, float(i))
      [] step.op = "opt(is_not)" -> opt(i, is_not(step.arg, i))
      [] step.op = "opt(streaming::one_of)" -> opt(i, one_of_streaming(step.arg, i))
      [] step.op = "opt(map_res(take_until))" ->
            opt(i, MapToken(take_until(",", i), step.arg))
      [] step.op = "parse_valid_status" -> parse_valid_status(i)
      [] step.op = "opt(parse_hms)" -> opt(i, parse_hms(i))
      [] step.op = "opt(parse_duration_hms)" -> opt(i, parse_duration_hms(i))

\* a match rebinds the value decoded k steps before, or panics
Rebind(i, vals, k, v) ==
    IF Len(v) = 2 THEN IErr("Panic", "unreachable!()")
    ELSE IOk(i, [vals EXCEPT ![k] = v])

\* a parser's value joins the values decoded so far; char's is dropped (_)
Bind(step, vals, r) ==
    IF ~r.ok THEN r
    ELSE IF step.op = "char" THEN IOk(r.rest, vals)
    ELSE IOk(r.rest, Append(vals, r.val))

Field(step, i, vals) ==
    IF step.op = "match"
    THEN Rebind(i, vals, Len(vals), Match(step.arg, vals[Len(vals)]))
    ELSE Bind(step, vals, Parser(step, i))

\* the steps from the k-th on, stopping at the first that fails (?)
RECURSIVE Run(_, _, _, _)
RECURSIVE Then(_, _, _)
Run(pipe, k, i, vals) ==
    IF k > Len(pipe) THEN IOk(i, vals)
    ELSE Then(pipe, k, Field(pipe[k], i, vals))

Then(pipe, k, r) == IF ~r.ok THEN r ELSE Run(pipe, k + 1, r.rest, r.val)

\* waypoint_id.and_then(|s| array_string::<TEXT_PARAMETER_MAX_LEN>(s).ok())
array_string_opt_lossy(o) ==
    IF ~IsSome(o) THEN Ok(None)
    ELSE IF array_string(o[1]).ok THEN Ok(Some(array_string(o[1]).val[1]))
    ELSE Ok(None)

\* waypoint_id.map(array_string::<TEXT_PARAMETER_MAX_LEN>).transpose()
array_string_opt(o) ==
    IF ~IsSome(o) THEN Ok(None)
    ELSE IF array_string(o[1]).ok THEN Ok(Some(array_string(o[1]).val[1]))
    ELSE array_string(o[1])

(***************************************************************************)
(* APA - Autopilot Sentence "A"                                            *)
(***************************************************************************)
\* the delimiters that end the APA waypoint id: is_not("*")
ApaWaypointStop == {"*"}

\* the pipeline with cross-track units read by one_of("NKC")
ApaPipeline_units_NKC ==
    <<P("one_of", {"A", "V"}), P("match", "AV"), P("char", ","),
      P("one_of", {"A", "V"}), P("match", "AV"), P("char", ","),
      P("opt(float)", {}), P("char", ","),
      P("one_of", {"L", "R"}), P("match", "LR"), P("char", ","),
      P("one_of", {"N", "K", "C"}), P("match", "NK"), P("char", ","),
      P("one_of", {"A", "V"}), P("match", "AV"), P("char", ","),
      P("one_of", {"A", "V"}), P("match", "AV"), P("char", ","),
      P("opt(float)", {}), P("char", ","),
      P("one_of", {"M", "T"}), P("match", "MT"), P("char", ","),
      P("opt(is_not)", ApaWaypointStop)>>

ApaPipeline ==
    <<P("one_of", {"A", "V"}), P("match", "AV"), P("char", ","),
      P("one_of", {"A", "V"}), P("match", "AV"), P("char", ","),
      P("opt(float)", {}), P("char", ","),
      P("one_of", {"L", "R"}), P("match", "LR"), P("char", ","),
      P("one_of", {"N", "K"}), P("match", "NK"), P("char", ","),
      P("one_of", {"A", "V"}), P("match", "AV"), P("char", ","),
      P("one_of", {"A", "V"}), P("match", "AV"), P("char", ","),
      P("opt(float)", {}), P("char", ","),
      P("one_of", {"M", "T"}), P("match", "MT"), P("char", ","),
      P("opt(is_not)", ApaWaypointStop)>>

ApaData(v, waypoint_id) ==
    IF ~waypoint_id.ok THEN waypoint_id
    ELSE Ok([status_warning |-> v[1],
             status_cycle_warning |-> v[2],
             cross_track_error_magnitude |-> v[3],
             direction_steer |-> v[4],
             cross_track_units |-> v[5],
             status_arrived |-> v[6],
             status_passed |-> v[7],
             bearing_origin_destination |-> v[8],
             magnetic_true |-> v[9],
             waypoint_id |-> waypoint_id.val[1]])

ApaResult(r) == IF ~r.ok THEN Stopped(r) ELSE ApaData(r.val, array_string_opt(r.val[10]))

do_parse_apa(i) == ApaResult(Run(ApaPipeline, 1, i, <<>>))

parse_apa(sentence) ==
    IF sentence.message_id # "APA"
    THEN Err(WrongSentenceHeader("APA", sentence.message_id))
    ELSE do_parse_apa(sentence.data)

(***************************************************************************)
(* RPM - Revolutions                                                       *)
(***************************************************************************)
RpmPipeline ==
    <<P("opt(streaming::one_of)", {"S", "E"}), P("char", ","), P("match", "RpmSource"),
      P("opt(map_res(take_until))", "parse_num::<i8>"), P("char", ","),
      P("opt(map_res(take_until))", "parse_float_num::<f32>"), P("char", ","),
      P("opt(map_res(take_until))", "parse_float_num::<f32>"), P("char", ","),
      P("parse_valid_status", {})>>

RpmData(r) ==
    IF ~r.ok THEN r
    ELSE IOk(r.rest, [source |-> r.val[1],
                      engine_or_shaft_number |-> r.val[2],
                      speed |-> r.val[3],
                      propeller_pitch |-> r.val[4],
                      valid |-> r.val[5]])

do_parse_rpm(i) == RpmData(Run(RpmPipeline, 1, i, <<>>))

parse_rpm(sentence) ==
    IF sentence.message_id # "RPM"
    THEN Err(WrongSentenceHeader("RPM", sentence.message_id))
    ELSE Second(do_parse_rpm(sentence.data))

(***************************************************************************)
(* RSA - Rudder sensor angle                                               *)
(***************************************************************************)
RsaPipeline ==
    <<P("opt(map_res(take_until))", "parse_float_num::<f32>"), P("char", ","),
      P("parse_valid_status", {}), P("char", ","),
      P("opt(map_res(take_until))", "parse_float_num::<f32>"), P("char", ","),
      P("parse_valid_status", {})>>

RsaData(r) ==
    IF ~r.ok THEN r
    ELSE IOk(r.rest, [starboard_rudder_sensor |-> r.val[1],
                      starboard_rudder_valid |-> r.val[2],
                      port_rudder_sensor |-> r.val[3],
                      port_rudder_valid |-> r.val[4]])

do_parse_rsa(i) == RsaData(Run(RsaPipeline, 1, i, <<>>))

\* parse_rsa written with all_consuming(do_parse_rsa)
parse_rsa_all_consuming(sentence) ==
    IF sentence.message_id # "RSA"
    THEN Err(WrongSentenceHeader("RSA", sentence.message_id))
    ELSE IF do_parse_rsa(sentence.data).ok /\ do_parse_rsa(sentence.data).rest # <<>>
    THEN Err(ParsingError(IErr("Error", "Eof")))
    ELSE Second(do_parse_rsa(sentence.data))

parse_rsa(sentence) ==
    IF sentence.message_id # "RSA"
    THEN Err(WrongSentenceHeader("RSA", sentence.message_id))
    ELSE Second(do_parse_rsa(sentence.data))

(***************************************************************************)
(* ZTG - UTC & Time to Destination Waypoint                                *)
(***************************************************************************)
\* the ZTG waypoint id read with is_not("*")
ZtgWaypointStop_checksum == {"*"}

\* the delimiters that end the ZTG waypoint id: is_not(",*")
ZtgWaypointStop == {",", "*"}

ZtgPipeline ==
    <<P("opt(parse_hms)", {}), P("char", ","),
      P("opt(parse_duration_hms)", {}), P("char", ","),
      P("opt(is_not)", ZtgWaypointStop)>>

ZtgData(v, waypoint_id) ==
    IF ~waypoint_id.ok THEN waypoint_id
    ELSE Ok([fix_time |-> v[1],
             fix_duration |-> v[2],
             waypoint_id |-> waypoint_id.val[1]])

ZtgResult(r) == IF ~r.ok THEN Stopped(r) ELSE ZtgData(r.val, array_string_opt(r.val[3]))

do_parse_ztg(i) == ZtgResult(Run(ZtgPipeline, 1, i, <<>>))

\* parse_ztg without the message_id check
parse_ztg_unchecked(sentence) == do_parse_ztg(sentence.data)

parse_ztg(sentence) ==
    IF sentence.message_id # "ZTG"
    THEN Err(WrongSentenceHeader("ZTG", sentence.message_id))
    ELSE do_parse_ztg(sentence.data)

\* the decoder entry point named d
Decode(d, sentence) ==
    CASE d = "APA" -> parse_apa(sentence)
      [] d = "RPM" -> parse_rpm(sentence)
      [] d = "RSA" -> parse_rsa(sentence)
      [] d = "ZTG" -> parse_ztg(sentence)

(***************************************************************************)
(* The framed sentences handed to the decoders.  A data body is a base     *)
(* body of one message type with at most one field replaced by a token of  *)
(* that field's pool (valid, empty and malformed tokens), followed by the  *)
(* text after the last field separator; the waypoint texts also run        *)
(* through every length up to MaxWptLen.                                   *)
(***************************************************************************)
MaxWptLen == 66

RECURSIVE Join(_)
Join(fields) ==
    IF Len(fields) = 0 THEN <<>>
    ELSE IF Len(fields) = 1 THEN fields[1]
    ELSE fields[1] \o <<",">> \o Join(Tail(fields))

CodeTokens ==
    {<<"A">>, <<"V">>, <<"L">>, <<"R">>, <<"N">>, <<"K">>, <<"M">>, <<"T">>,
     <<"S">>, <<"E">>, <<"G">>, <<"X">>, <<"C">>, <<"a">>, <<>>, <<"A", "V">>}

FloatTokens ==
    {<<"0", ".", "1", "0">>, <<"0", "1", "1">>, <<"0", ".", "1">>,
     <<"1", "1">>, <<"-", "1", ".", "5">>, <<"1", ".">>, <<".", "5">>,
     <<"+", "2">>, <<"0">>, <<"-", "0">>, <<"1", "e", "2">>,
     <<"n", "a", "n">>, <<"N", "a", "N">>, <<"N", "A", "N">>,
     <<"i", "n", "f">>, <<"i", "n", "f", "i", "n", "i", "t", "y">>,
     <<"-", "i", "n", "f">>, <<"X">>, <<"1", "X">>, <<"1", ".", "5", "V">>,
     <<"-">>, <<".">>, <<"1", "e">>, <<"-", "-", "1">>,
     <<"1", ".", "2", ".", "3">>, <<"0", "x", "1">>, <<"n", "a">>, <<>>}

IntTokens ==
    {<<"1">>, <<"-", "2">>, <<"0">>, <<"1", "2", "7">>,
     <<"-", "1", "2", "8">>, <<"+", "3">>, <<"0", "0", "7">>,
     <<"1", "2", "8">>, <<"-", "1", "2", "9">>, <<"1", "0", "0", "0">>,
     <<"X">>, <<"1", "X">>, <<"1", ".", "5">>, <<"-">>, <<"1", "e", "2">>,
     <<>>}

HmsTokens ==
    {<<"2", "4", "0", "0", "0", "0">>,
     <<"1", "4", "5", "8", "3", "2", ".", "1", "2">>,
     <<"0", "4", "2", "3", "5", "9", ".", "1", "7">>,
     <<"1", "4", "5", "8", "3", "2">>, <<"0", "0", "0", "0", "0", "0">>,
     <<"2", "3", "5", "9", "5", "9", ".", "9">>,
     <<"9", "9", "5", "9", "5", "9">>, <<"1", "4", "6", "0", "3", "2">>,
     <<"1", "4", "5", "8", "6", "0">>, <<"1", "4", "5", "8">>,
     <<"1", "4", "5", "8", "3">>, <<"X">>,
     <<"1", "4", "5", "8", "3", "2", ".", "1", "2", "X">>,
     <<"1", "4", "5", "8", "3", "2", "X">>, <<"-", "1", "4", "5", "8", "3">>,
     <<"1", "4", ":", "5", "8">>, <<"n", "a", "n">>,
     <<"1", "4", "5", "8", "n", "a", "n">>, <<"1", "4", "5", "8", "-", "1">>,
     <<>>}

\* text after the last field separator of an APA or ZTG body
WaypointTails ==
    {<<>>, <<"*">>, <<"*", "4", "2">>, <<"W">>, <<"W", "P", "T">>,
     <<"W", "P", "T", "*", "2", "4">>, <<"D", "E", "S", "T">>,
     <<"D", "E", "S", "T", "*", "4", "2">>,
     <<"D", "E", "S", "T", ",", "0", "1", "1", ",", "M">>,
     <<"D", "E", "S", "T", ",", "0", "1", "1", ",", "M", "*", "4", "2">>,
     <<",">>, <<",", "*", "7">>, <<",", "X">>, <<"W", "*", "X", "*", "Y">>,
     <<"W", ",", "*">>}
      \cup {Rep("W", n) : n \in 0..MaxWptLen}
      \cup {Rep("W", n) \o <<"*", "6", "B">> : n \in (MaxWptLen - 3)..MaxWptLen}
      \cup {Rep("W", n) \o <<",", "X">> : n \in (MaxWptLen - 3)..MaxWptLen}
      \cup {Rep("W", 72), Rep("W", 72) \o <<"*", "6", "B">>}

\* text after the terminal status of an RPM or RSA body
StatusTails ==
    {<<>>, <<"*", "7", "3">>, <<",", "X">>, <<"Z">>}

\* every single-field variation of the base bodies
Variants(bases, pools) ==
    UNION {UNION {{[b EXCEPT ![k] = tok] : tok \in pools[k]} : k \in DOMAIN b} : b \in bases}

\* every truncation of the base bodies
Prefixes(bases) ==
    UNION {{Take(Join(b), n) : n \in 0..Len(Join(b))} : b \in bases}

ApaBases ==
    {<<<<"A">>, <<"A">>, <<"0", ".", "1", "0">>, <<"R">>, <<"N">>, <<"V">>, <<"V">>, <<"0", "1", "1">>, <<"M">>>>,
     <<<<"V">>, <<"V">>, <<>>, <<"L">>, <<"K">>, <<"A">>, <<"A">>, <<>>, <<"T">>>>}

ApaPools ==
    <<CodeTokens, CodeTokens, FloatTokens, CodeTokens, CodeTokens, CodeTokens,
      CodeTokens, FloatTokens, CodeTokens>>

ApaBodies ==
    {Join(f) \o <<",">> \o t :
        f \in Variants(ApaBases, ApaPools), t \in {<<>>, <<"D", "E", "S", "T", ",", "0", "1", "1", ",", "M", "*", "4", "2">>}}
      \cup {Join(f) \o <<",">> \o t : f \in ApaBases, t \in WaypointTails}
      \cup Prefixes(ApaBases)

RpmBases ==
    {<<<<"S">>, <<"1">>, <<"3", "1">>, <<"1", "0", "0">>, <<"A">>>>,
     <<<<"E">>, <<"-", "2">>, <<"-", "3", "1", ".", "5">>, <<"-", "1", "0", "0">>, <<"V">>>>,
     <<<<>>, <<>>, <<>>, <<>>, <<"A">>>>}

RpmPools == <<CodeTokens, IntTokens, FloatTokens, FloatTokens, CodeTokens>>

RpmBodies ==
    {Join(f) \o t : f \in Variants(RpmBases, RpmPools), t \in StatusTails}
      \cup Prefixes(RpmBases)

RsaBases ==
    {<<<<"8", ".", "0">>, <<"A">>, <<"-", "2">>, <<"A">>>>,
     <<<<>>, <<"V">>, <<>>, <<"V">>>>}

RsaPools == <<FloatTokens, CodeTokens, FloatTokens, CodeTokens>>

RsaBodies ==
    {Join(f) \o t : f \in Variants(RsaBases, RsaPools), t \in StatusTails}
      \cup Prefixes(RsaBases)

ZtgBases ==
    {<<<<"1", "4", "5", "8", "3", "2", ".", "1", "2">>, <<"0", "4", "2", "3", "5", "9", ".", "1", "7">>>>,
     <<<<>>, <<"0", "4", "2", "3", "5", "9", ".", "1", "7">>>>,
     <<<<>>, <<>>>>}

ZtgPools == <<HmsTokens, HmsTokens>>

ZtgBodies ==
    {Join(f) \o <<",">> \o t :
        f \in Variants(ZtgBases, ZtgPools), t \in {<<>>, <<"W", "P", "T", "*", "2", "4">>, <<"W", "P", "T", ",", "X">>}}
      \cup {Join(f) \o <<",">> \o t : f \in ZtgBases, t \in WaypointTails}
      \cup Prefixes(ZtgBases)

Bodies == ApaBodies \cup RpmBodies \cup RsaBodies \cup ZtgBodies

\* text a caller may find after the body it decoded first
Extras ==
    {<<"*", "4", "2">>, <<",", "X">>, <<"Z">>, <<"*">>, <<",">>}

Decoders == {"APA", "RPM", "RSA", "ZTG"}

(***************************************************************************)
(* The caller                                                              *)
(***************************************************************************)
VARIABLES sentence, decoder, first, extra, second, pc

vars == <<sentence, decoder, first, extra, second, pc>>

NoResult == [ok |-> FALSE, val |-> <<>>, error |-> NoError]

Init ==
    /\ sentence \in [message_id : SentenceType, data : Bodies]
    /\ decoder = "none"
    /\ first = NoResult
    /\ extra = <<>>
    /\ second = NoResult
    /\ pc = "framed"

Call(d, result) ==
    /\ pc = "framed"
    /\ decoder' = d
    /\ first' = result
    /\ pc' = "decoded"
    /\ UNCHANGED <<sentence, extra, second>>

CallApa == Call("APA", parse_apa(sentence))

CallRpm == Call("RPM", parse_rpm(sentence))

CallRsa == Call("RSA", parse_rsa(sentence))

CallZtg == Call("ZTG", parse_ztg(sentence))

\* the same sentence handed to the same decoder a second time
DecodeAgain ==
    /\ pc = "decoded"
    /\ second' = Decode(decoder, sentence)
    /\ pc' = "again"
    /\ UNCHANGED <<sentence, decoder, first, extra>>

\* the same sentence with more text after its data body
DecodeLonger ==
    /\ pc = "decoded"
    /\ \E s \in Extras :
          /\ extra' = s
          /\ second' = Decode(decoder, [sentence EXCEPT !.data = @ \o s])
    /\ pc' = "longer"
    /\ UNCHANGED <<sentence, decoder, first>>

Next == CallApa \/ CallRpm \/ CallRsa \/ CallZtg \/ DecodeAgain \/ DecodeLonger

Spec == Init /\ [][Next]_vars

(***************************************************************************)
(* What the claims say of a data body, read off the body itself: its       *)
(* fields are the texts between the field separators, and a token is       *)
(* valid or malformed for its field type by the tables below.              *)
(***************************************************************************)
\* the text after the n-th field separator
AfterSeparators(s, n) ==
    IF n = 0 THEN s
    ELSE IF Cardinality({p \in 1..Len(s) : s[p] = ","}) < n THEN <<>>
    ELSE Drop(s, CHOOSE p \in 1..Len(s) :
                    s[p] = "," /\ Cardinality({q \in 1..p : s[q] = ","}) = n)

\* the text before the first character of stop
UpTo(s, stop) == Take(s, RunNotIn(s, stop))

Separators(s) == Cardinality({p \in 1..Len(s) : s[p] = ","})

FieldText(s, k) == UpTo(AfterSeparators(s, k - 1), {","})

\* tokens that are, in full, a number for nom's float
ValidNomFloat ==
    {<<"0", ".", "1", "0">>, <<"0", "1", "1">>, <<"0", ".", "1">>,
     <<"1", "1">>, <<"-", "1", ".", "5">>, <<"1", ".">>, <<".", "5">>,
     <<"+", "2">>, <<"0">>, <<"-", "0">>, <<"1", "e", "2">>,
     <<"n", "a", "n">>, <<"N", "a", "N">>, <<"N", "A", "N">>,
     <<"i", "n", "f">>, <<"3", "1">>, <<"1", "0", "0">>,
     <<"-", "3", "1", ".", "5">>, <<"-", "1", "0", "0">>, <<"8", ".", "0">>,
     <<"-", "2">>}

\* tokens that are, in full, a number for str::parse::<f32>
ValidStdFloat ==
    ValidNomFloat \cup {<<"i", "n", "f", "i", "n", "i", "t", "y">>, <<"-", "i", "n", "f">>}

\* tokens no float parser takes in full
BadFloat ==
    {<<"X">>, <<"1", "X">>, <<"1", ".", "5", "V">>, <<"-">>, <<".">>,
     <<"1", "e">>, <<"-", "-", "1">>, <<"1", ".", "2", ".", "3">>,
     <<"0", "x", "1">>, <<"n", "a">>}

BadNomFloat == BadFloat \cup {<<"i", "n", "f", "i", "n", "i", "t", "y">>, <<"-", "i", "n", "f">>}

ValidInt ==
    {<<"1">>, <<"-", "2">>, <<"0">>, <<"1", "2", "7">>,
     <<"-", "1", "2", "8">>, <<"+", "3">>, <<"0", "0", "7">>}

BadInt ==
    {<<"1", "2", "8">>, <<"-", "1", "2", "9">>, <<"1", "0", "0", "0">>,
     <<"X">>, <<"1", "X">>, <<"1", ".", "5">>, <<"-">>, <<"1", "e", "2">>}

ValidTime ==
    {<<"1", "4", "5", "8", "3", "2", ".", "1", "2">>,
     <<"0", "4", "2", "3", "5", "9", ".", "1", "7">>,
     <<"1", "4", "5", "8", "3", "2">>, <<"0", "0", "0", "0", "0", "0">>,
     <<"2", "3", "5", "9", "5", "9", ".", "9">>, <<"1", "4", "5", "8", "3">>}

ValidDuration ==
    ValidTime \cup {<<"9", "9", "5", "9", "5", "9">>, <<"2", "4", "0", "0", "0", "0">>}

BadDuration ==
    {<<"1", "4", "6", "0", "3", "2">>, <<"1", "4", "5", "8", "6", "0">>,
     <<"1", "4", "5", "8">>, <<"X">>,
     <<"1", "4", "5", "8", "3", "2", ".", "1", "2", "X">>,
     <<"1", "4", "5", "8", "3", "2", "X">>, <<"-", "1", "4", "5", "8", "3">>,
     <<"1", "4", ":", "5", "8">>, <<"n", "a", "n">>,
     <<"1", "4", "5", "8", "n", "a", "n">>, <<"1", "4", "5", "8", "-", "1">>}

BadTime == BadDuration \cup {<<"9", "9", "5", "9", "5", "9">>, <<"2", "4", "0", "0", "0", "0">>}

\* the number a valid float token denotes
TokenValue(tok) ==
    CASE tok = <<"0", ".", "1", "0">> -> [cls |-> "num", neg |-> FALSE, mant |-> 1, exp |-> -1]
      [] tok = <<"0", "1", "1">> -> [cls |-> "num", neg |-> FALSE, mant |-> 11, exp |-> 0]
      [] tok = <<"0", ".", "1">> -> [cls |-> "num", neg |-> FALSE, mant |-> 1, exp |-> -1]
      [] tok = <<"1", "1">> -> [cls |-> "num", neg |-> FALSE, mant |-> 11, exp |-> 0]
      [] tok = <<"-", "1", ".", "5">> -> [cls |-> "num", neg |-> TRUE, mant |-> 15, exp |-> -1]
      [] tok = <<"1", ".">> -> [cls |-> "num", neg |-> FALSE, mant |-> 1, exp |-> 0]
      [] tok = <<".", "5">> -> [cls |-> "num", neg |-> FALSE, mant |-> 5, exp |-> -1]
      [] tok = <<"+", "2">> -> [cls |-> "num", neg |-> FALSE, mant |-> 2, exp |-> 0]
      [] tok = <<"0">> -> [cls |-> "num", neg |-> FALSE, mant |-> 0, exp |-> 0]
      [] tok = <<"-", "0">> -> [cls |-> "num", neg |-> TRUE, mant |-> 0, exp |-> 0]
      [] tok = <<"1", "e", "2">> -> [cls |-> "num", neg |-> FALSE, mant |-> 1, exp |-> 2]
      [] tok = <<"n", "a", "n">> -> NaN
      [] tok = <<"N", "a", "N">> -> NaN
      [] tok = <<"N", "A", "N">> -> NaN
      [] tok = <<"i", "n", "f">> -> Inf(FALSE)
      [] tok = <<"3", "1">> -> [cls |-> "num", neg |-> FALSE, mant |-> 31, exp |-> 0]
      [] tok = <<"1", "0", "0">> -> [cls |-> "num", neg |-> FALSE, mant |-> 1, exp |-> 2]
      [] tok = <<"-", "3", "1", ".", "5">> -> [cls |-> "num", neg |-> TRUE, mant |-> 315, exp |-> -1]
      [] tok = <<"-", "1", "0", "0">> -> [cls |-> "num", neg |-> TRUE, mant |-> 1, exp |-> 2]
      [] tok = <<"8", ".", "0">> -> [cls |-> "num", neg |-> FALSE, mant |-> 8, exp |-> 0]
      [] tok = <<"-", "2">> -> [cls |-> "num", neg |-> TRUE, mant |-> 2, exp |-> 0]
      [] tok = <<"i", "n", "f", "i", "n", "i", "t", "y">> -> Inf(FALSE)
      [] tok = <<"-", "i", "n", "f">> -> Inf(TRUE)

Empty == {<<>>}

AVCodes == {<<"A">>, <<"V">>}

\* the tokens each APA field accepts
ApaAccepts ==
    <<AVCodes, AVCodes, ValidNomFloat \cup Empty, {<<"L">>, <<"R">>},
      {<<"N">>, <<"K">>}, AVCodes, AVCodes, ValidNomFloat \cup Empty,
      {<<"M">>, <<"T">>}>>

RpmAccepts ==
    <<{<<"S">>, <<"E">>} \cup Empty, ValidInt \cup Empty, ValidStdFloat \cup Empty,
      ValidStdFloat \cup Empty>>

RsaAccepts == <<ValidStdFloat \cup Empty, AVCodes, ValidStdFloat \cup Empty>>

ZtgAccepts == <<ValidTime \cup Empty, ValidDuration \cup Empty>>

Accepts(d) ==
    CASE d = "APA" -> ApaAccepts
      [] d = "RPM" -> RpmAccepts
      [] d = "RSA" -> RsaAccepts
      [] d = "ZTG" -> ZtgAccepts

\* the malformed tokens of each optional numeric or coded field
ApaRejects == [k \in {3, 8} |-> BadNomFloat]

RpmRejects ==
    <<CodeTokens \ ({<<"S">>, <<"E">>} \cup Empty), BadInt, BadFloat, BadFloat>>

RsaRejects == [k \in {1, 3} |-> BadFloat]

ZtgRejects == <<BadTime, BadDuration>>

Rejects(d) ==
    CASE d = "APA" -> ApaRejects
      [] d = "RPM" -> RpmRejects
      [] d = "RSA" -> RsaRejects
      [] d = "ZTG" -> ZtgRejects

\* the optional fields that a separator ends, by position and name
OptionalFields(d) ==
    CASE d = "APA" -> {<<3, "cross_track_error_magnitude">>,
                       <<8, "bearing_origin_destination">>}
      [] d = "RPM" -> {<<1, "source">>, <<2, "engine_or_shaft_number">>,
                       <<3, "speed">>, <<4, "propeller_pitch">>}
      [] d = "RSA" -> {<<1, "starboard_rudder_sensor">>, <<3, "port_rudder_sensor">>}
      [] d = "ZTG" -> {<<1, "fix_time">>, <<2, "fix_duration">>}

HasWaypoint(d) == d \in {"APA", "ZTG"}

\* every field before the last one holds a token its type accepts
ValidHead(d, data) ==
    /\ Separators(data) >= Len(Accepts(d))
    /\ \A k \in DOMAIN Accepts(d) : FieldText(data, k) \in Accepts(d)[k]

\* the text after the last field separator of the decoder's layout
LastText(d, data) == AfterSeparators(data, Len(Accepts(d)))

\* a body the decoder's field table accepts
ValidBody(d, data) ==
    /\ ValidHead(d, data)
    /\ IF HasWaypoint(d)
       THEN Len(UpTo(LastText(d, data), IF d = "APA" THEN {"*"} ELSE {",", "*"}))
               <= TEXT_PARAMETER_MAX_LEN
       ELSE Len(LastText(d, data)) > 0 /\ LastText(d, data)[1] \in {"A", "V"}

Decoded == pc # "framed"

\* the call was made with the decoder of the sentence's own type
Own == Decoded /\ sentence.message_id = decoder

data == sentence.data

OptText(t) == IF t = <<>> THEN None ELSE Some(t)

OptNumber(t) == IF t = <<>> THEN None ELSE Some(TokenValue(t))

(***************************************************************************)
(* Claims                                                                  *)
(***************************************************************************)
\* C1: a decoder handed a sentence of another message type returns
\* WrongSentenceHeader with its own tag as expected and the sentence's tag
\* as found, whatever the data body is, and never a field-level error.
C1_WrongHeaderRejected ==
    (Decoded /\ sentence.message_id # decoder) =>
        /\ ~first.ok
        /\ first.error.kind = "WrongSentenceHeader"
        /\ first.error.expected = decoder
        /\ first.error.found = sentence.message_id
        /\ first.error.nom = ""

C1_Witness ==
    /\ decoder = "ZTG"
    /\ sentence.message_id = "ABK"
    /\ ValidBody("ZTG", data)
    /\ Len(data) > 20
    /\ first.error.kind = "WrongSentenceHeader"

\* the APA fields that hold a single-character code, with their closed sets
ApaCodeSets ==
    [k \in {1, 2, 4, 5, 6, 7, 9} |->
        CASE k \in {1, 2, 6, 7} -> {"A", "V"}
          [] k = 4 -> {"L", "R"}
          [] k = 5 -> {"N", "K"}
          [] k = 9 -> {"M", "T"}]

\* field k of the body is empty or starts with a character outside its set
BadCode(k) == FieldText(data, k) = <<>> \/ FieldText(data, k)[1] \notin ApaCodeSets[k]

\* C2: parse_apa returns an error, never a record (and never panics), for
\* every body in which one of the seven coded fields is empty or holds a
\* character outside its closed set.
C2_ApaCodesClosed ==
    (Own /\ decoder = "APA" /\ \E k \in DOMAIN ApaCodeSets : BadCode(k)) =>
        /\ ~first.ok
        /\ first.error.kind = "ParsingError"

\* cross-track units 'C', every other field well-formed
C2_Witness ==
    /\ Own
    /\ decoder = "APA"
    /\ FieldText(data, 5) = <<"C">>
    /\ \A k \in DOMAIN ApaAccepts : k # 5 => FieldText(data, k) \in ApaAccepts[k]
    /\ ~first.ok

\* the waypoint id token of a body: up to '*' in APA, up to ',' or '*' in ZTG
WaypointToken(d, body) == UpTo(LastText(d, body), IF d = "APA" THEN {"*"} ELSE {",", "*"})

\* C3: in parse_apa and parse_ztg alike, with valid earlier fields, a
\* waypoint id token longer than 64 fails with ParameterLength carrying
\* max_length 64 and the token's exact length; one of length 1..64 is
\* returned unchanged.
C3_WaypointLength ==
    (Own /\ HasWaypoint(decoder) /\ ValidHead(decoder, data)) =>
        /\ Len(WaypointToken(decoder, data)) > 64 =>
              /\ ~first.ok
              /\ first.error.kind = "ParameterLength"
              /\ first.error.max_length = 64
              /\ first.error.parameter_length = Len(WaypointToken(decoder, data))
        /\ Len(WaypointToken(decoder, data)) \in 1..64 =>
              /\ first.ok
              /\ first.val[1].waypoint_id = Some(WaypointToken(decoder, data))

C3_Witness ==
    /\ Own
    /\ decoder = "APA"
    /\ ValidHead("APA", data)
    /\ Len(WaypointToken("APA", data)) = 65
    /\ first.error.kind = "ParameterLength"
    /\ first.error.parameter_length = 65

\* C4: an empty token of an optional field never makes the decode fail and
\* always decodes to None: a body whose other tokens are valid is accepted,
\* and in every record returned the optional fields with an empty token
\* (between two separators, or last before '*' or the end) are None.
C4_EmptyOptionalIsNone ==
    Own =>
        /\ ValidBody(decoder, data) => first.ok
        /\ first.ok =>
              /\ \A f \in OptionalFields(decoder) :
                    FieldText(data, f[1]) = <<>> => first.val[1][f[2]] = None
              /\ (HasWaypoint(decoder) /\ WaypointToken(decoder, data) = <<>>) =>
                    first.val[1].waypoint_id = None

\* an RPM body with all four optional fields empty
C4_Witness ==
    /\ Own
    /\ decoder = "RPM"
    /\ \A k \in 1..4 : FieldText(data, k) = <<>>
    /\ first.ok
    /\ first.val[1].speed = None

\* C5 as stated: in parse_apa and in parse_ztg the waypoint id is the whole
\* remaining body up to '*' or the end, field separators included.
C5_RemainderUpToChecksum ==
    (Own /\ HasWaypoint(decoder) /\ first.ok) =>
        first.val[1].waypoint_id = OptText(UpTo(LastText(decoder, data), {"*"}))

\* C5 amended: in parse_apa the waypoint id is the whole remaining body up
\* to '*' or the end, field separators included; in parse_ztg it ends at
\* the first ',' or '*' (or the end of the body).
C5_WaypointEnd ==
    (Own /\ HasWaypoint(decoder)) =>
        /\ ValidBody(decoder, data) => first.ok
        /\ first.ok =>
              first.val[1].waypoint_id =
                 OptText(UpTo(LastText(decoder, data),
                              IF decoder = "APA" THEN {"*"} ELSE {",", "*"}))

\* a ZTG body whose remainder holds a field separator before the checksum
C5_Witness ==
    /\ Own
    /\ decoder = "ZTG"
    /\ first.ok
    /\ LastText("ZTG", data) = <<"D", "E", "S", "T", ",", "0", "1", "1", ",", "M", "*", "4", "2">>
    /\ first.val[1].waypoint_id = Some(<<"D", "E", "S", "T">>)

OptF32Eq(a, b) == Len(a) = Len(b) /\ (IsSome(a) => F32Eq(a[1], b[1]))

\* the derived PartialEq of the decoder's record
RecordEq(d, a, b) ==
    CASE d = "APA" ->
            /\ OptF32Eq(a.cross_track_error_magnitude, b.cross_track_error_magnitude)
            /\ OptF32Eq(a.bearing_origin_destination, b.bearing_origin_destination)
            /\ \A f \in DOMAIN a \ {"cross_track_error_magnitude",
                                    "bearing_origin_destination"} : a[f] = b[f]
      [] d = "RPM" ->
            /\ OptF32Eq(a.speed, b.speed)
            /\ OptF32Eq(a.propeller_pitch, b.propeller_pitch)
            /\ \A f \in {"source", "engine_or_shaft_number", "valid"} : a[f] = b[f]
      [] d = "RSA" ->
            /\ OptF32Eq(a.starboard_rudder_sensor, b.starboard_rudder_sensor)
            /\ OptF32Eq(a.port_rudder_sensor, b.port_rudder_sensor)
            /\ \A f \in {"starboard_rudder_valid", "port_rudder_valid"} : a[f] = b[f]
      [] d = "ZTG" -> a = b

\* C7: decoding the same sentence twice with the same decoder gives the
\* same error or two records equal under the record's PartialEq.
C7_DecodeTwiceEqual ==
    pc = "again" =>
        /\ first.ok = second.ok
        /\ ~first.ok => first.error = second.error
        /\ first.ok => RecordEq(decoder, first.val[1], second.val[1])

\* the record of a well-formed APA body, field by field
ExpectedApa(body) ==
    [status_warning |-> Some(FieldText(body, 1) = <<"A">>),
     status_cycle_warning |-> Some(FieldText(body, 2) = <<"A">>),
     cross_track_error_magnitude |-> OptNumber(FieldText(body, 3)),
     direction_steer |-> Some(FieldText(body, 4) = <<"L">>),
     cross_track_units |-> Some(FieldText(body, 5)[1]),
     status_arrived |-> Some(FieldText(body, 6) = <<"A">>),
     status_passed |-> Some(FieldText(body, 7) = <<"A">>),
     bearing_origin_destination |-> OptNumber(FieldText(body, 8)),
     magnetic_true |-> Some(FieldText(body, 9)[1]),
     waypoint_id |-> OptText(UpTo(AfterSeparators(body, 9), {"*"}))]

ApaExample ==
    <<"A", ",", "A", ",", "0", ".", "1", "0", ",", "R", ",", "N", ",", "V", ",", "V", ",",
      "0", "1", "1", ",", "M", ",", "D", "E", "S", "T", ",", "0", "1", "1", ",", "M">>

ApaExampleRecord ==
    [status_warning |-> <<TRUE>>,
     status_cycle_warning |-> <<TRUE>>,
     cross_track_error_magnitude |-> <<[cls |-> "num", neg |-> FALSE, mant |-> 1, exp |-> -1]>>,
     direction_steer |-> <<FALSE>>,
     cross_track_units |-> <<"N">>,
     status_arrived |-> <<FALSE>>,
     status_passed |-> <<FALSE>>,
     bearing_origin_destination |-> <<[cls |-> "num", neg |-> FALSE, mant |-> 11, exp |-> 0]>>,
     magnetic_true |-> <<"M">>,
     waypoint_id |-> <<<<"D", "E", "S", "T", ",", "0", "1", "1", ",", "M">>>>]

StartsAfterLastField ==
    \/ ~HasWaypoint(decoder)
    \/ Len(WaypointToken(decoder, data)) < Len(LastText(decoder, data))
    \/ extra[1] \in (IF decoder = "APA" THEN {"*"} ELSE {",", "*"})

\* C9: an accepted body followed by more text after its last field decodes
\* to the same record: parse_rpm and parse_rsa discard what follows the
\* terminal status, parse_apa and parse_ztg what follows the waypoint id.
C9_TrailingTextIgnored ==
    (pc = "longer" /\ Own /\ first.ok /\ StartsAfterLastField) => second = first

\* an RSA body that ends with its status, decoded again with ",X" appended
C9_Witness ==
    /\ pc = "longer"
    /\ decoder = "RSA"
    /\ first.ok
    /\ Len(LastText("RSA", data)) = 1
    /\ extra = <<",", "X">>
    /\ second = first

ApaMandatory ==
    {"status_warning", "status_cycle_warning", "direction_steer", "cross_track_units",
     "status_arrived", "status_passed", "magnetic_true"}

\* C10: every record parse_apa returns has its seven coded fields Some,
\* and no input reaches an unreachable!() branch.
C10_ApaMandatorySome ==
    (Decoded /\ decoder = "APA") =>
        /\ first.error.kind # "Panic"
        /\ first.ok => \A f \in ApaMandatory : IsSome(first.val[1][f])

\* a record whose three optional fields are all None
C10_Witness ==
    /\ Own
    /\ decoder = "APA"
    /\ first.ok
    /\ first.val[1].cross_track_error_magnitude = None
    /\ first.val[1].bearing_origin_destination = None
    /\ first.val[1].waypoint_id = None
    /\ \A f \in ApaMandatory : IsSome(first.val[1][f])

====
